---------------------------- MODULE Spec2Model ----------------------------
(***************************************************************************)
(* A model of the registry in src/app.py: the blob store with its chunked  *)
(* upload protocol, the dual-address manifest store (tag files and digest  *)
(* files, hardlinked or copied), the reference walker, the incremental     *)
(* sweep run on manifest DELETE and the bulk garbage collector.            *)
(*                                                                         *)
(* Byte strings and text strings are sequences of symbols.  A digest       *)
(* string is the symbol "sha256:" followed by the hex digest; the hex      *)
(* digest of a byte string is an injective encoding of it (SHA-256 without *)
(* collisions).  A manifest body is a one-symbol byte string whose JSON    *)
(* parse is given by the table json_loads.                                 *)
(***************************************************************************)
EXTENDS Integers, Sequences, FiniteSets, TLC

VARIABLES
    blobs,      \* data/blobs:     file name (hex) -> bytes
    blob_inode, \* data/blobs:     file name (hex) -> the file's identity: the
                \*   upload id of the session file that was renamed to it
    uploads,    \* data/uploads:   upload id -> bytes of the session file
    issued,     \* number of upload ids handed out so far
    dirs,       \* directories under data/manifests (paths, prefix closed)
    mfiles,     \* files under data/manifests: <<repo, name>> ->
                \*   [data |-> bytes, links |-> the paths sharing the inode]
    resp,       \* the response of the last request handled
    putting,    \* the manifest PUT in progress, when its file operations
                \*   are interleaved with other requests
    collecting, \* the bulk GC in progress, likewise
    patching,   \* the upload PATCH in progress, likewise
    finalizing  \* the finalize PUT in progress, likewise

vars == <<blobs, blob_inode, uploads, issued, dirs, mfiles, resp, putting,
          collecting, patching, finalizing>>

----------------------------------------------------------------------------
(* Bounds of the model *)

\* longest upload session, in bytes
MaxLen == 2
\* number of upload sessions ever opened
MaxUploads == 2
\* largest page size n asked of the catalog and of a tags list
MaxPage == 2

----------------------------------------------------------------------------
(* Strings, bytes and digests *)

EmptyFun == [x \in {} |-> x]

Restrict(f, S) == [x \in S |-> f[x]]

Bytes == {"a"}

RECURSIVE SeqsUpTo(_, _)
SeqsUpTo(S, n) ==
    IF n = 0 THEN {<<>>}
    ELSE LET shorter == SeqsUpTo(S, n - 1)
         IN  shorter \cup {Append(s, x) : s \in shorter, x \in S}

\* every content an upload session can hold
SessionContents == SeqsUpTo(Bytes, MaxLen)

\* hashlib.sha256(content).hexdigest()
Sha256Hex(content) == <<"#">> \o content

\* f'sha256:{hashlib.sha256(content).hexdigest()}'
Sha256Digest(content) == <<"sha256:">> \o Sha256Hex(content)

\* s.startswith('sha256:')
StartsWithSha(s) == Len(s) > 0 /\ s[1] = "sha256:"

\* s.replace('sha256:', '')
ReplaceSha(s) == SelectSeq(s, LAMBDA x : x # "sha256:")

\* a file name that is a hex digest (a digest address), as opposed to a tag
IsHexName(f) == Len(f) > 0 /\ f[1] = "#"

get_blob_path(digest) == ReplaceSha(digest)

get_manifest_path(name, reference) ==
    <<name, IF StartsWithSha(reference) THEN Tail(reference) ELSE reference>>

get_upload_path(upload_id) == upload_id

----------------------------------------------------------------------------
(* Manifest documents *)

V2 == "application/vnd.docker.distribution.manifest.v2+json"

SUPPORTED_MANIFEST_TYPES ==
    { "application/vnd.docker.distribution.manifest.v1+json",
      "application/vnd.docker.distribution.manifest.v2+json",
      "application/vnd.docker.distribution.manifest.list.v2+json",
      "application/vnd.oci.image.manifest.v1+json",
      "application/vnd.oci.image.index.v1+json" }

\* the digests of two blobs
DigestA == Sha256Digest(<<"a">>)
DigestB == Sha256Digest(<<"a", "a">>)

\* A parsed document: mediaType is "" when the key is absent, config holds
\* config.digest when present, layers and manifests hold the digests listed.
Doc(mt, cfg, lay, man) ==
    [ok |-> TRUE, mediaType |-> mt, config |-> cfg, layers |-> lay,
     manifests |-> man]

JSONDecodeError ==
    [ok |-> FALSE, mediaType |-> "", config |-> <<>>, layers |-> <<>>,
     manifests |-> <<>>]

\* manifest bodies a client sends
M1 == <<"{config:{digest:A},layers:[{digest:B}],mediaType:v2}">>
M2 == <<"{manifests:[{digest:A}],mediaType:v2}">>
M3 == <<"{manifests:[{digest:A}]}">>
MUnsupported == <<"{mediaType:text/plain}">>
MBadJson == <<"{">>

json_loads(data) ==
    CASE data = M1 -> Doc(V2, <<DigestA>>, <<DigestB>>, <<>>)
      [] data = M2 -> Doc(V2, <<>>, <<>>, <<DigestA>>)
      [] data = M3 -> Doc("", <<>>, <<>>, <<DigestA>>)
      [] data = MUnsupported -> Doc("text/plain", <<>>, <<>>, <<>>)
      [] OTHER -> JSONDecodeError

\* json.dumps(doc).encode('utf-8'): the serialisation json.dumps produces
\* (keys in insertion order, its own separators)
json_dumps(doc) ==
    CASE doc = Doc(V2, <<>>, <<>>, <<DigestA>>) -> M2
      [] doc = Doc(V2, <<DigestA>>, <<DigestB>>, <<>>) -> M1
      [] OTHER -> <<"{}">>

\* the bodies put_manifest accepts
Bodies == {M1, M3}

----------------------------------------------------------------------------
(* The manifests tree as a file system with hardlinks *)

Exists(fs, p) == p \in DOMAIN fs

ReadFile(fs, p) == fs[p].data

\* open(p, 'wb'); write(data): truncates and rewrites the inode of an
\* existing file, so every hardlink of it sees the new bytes
WriteFile(fs, p, data) ==
    IF Exists(fs, p)
    THEN [q \in DOMAIN fs |->
            IF q \in fs[p].links THEN [fs[q] EXCEPT !.data = data] ELSE fs[q]]
    ELSE [q \in DOMAIN fs \cup {p} |->
            IF q = p THEN [data |-> data, links |-> {p}] ELSE fs[q]]

\* as Link, were os.link to return without making the link
LinkNothing(fs, src, dst) == fs

\* os.link(src, dst), dst absent
Link(fs, src, dst) ==
    LET group == fs[src].links \cup {dst}
    IN  [q \in DOMAIN fs \cup {dst} |->
            IF q \in group THEN [data |-> fs[src].data, links |-> group]
            ELSE fs[q]]

\* os.remove(p)
Remove(fs, p) ==
    [q \in DOMAIN fs \ {p} |-> [fs[q] EXCEPT !.links = @ \ {p}]]

\* os.path.samefile(p, q), both present
SameFile(fs, p, q) == q \in fs[p].links

\* os.listdir(manifests/<name>) restricted to regular files
FilesIn(fs, name) == {p \in DOMAIN fs : p[1] = name}

\* os.makedirs(manifests/<name>, exist_ok=True)
RECURSIVE Prefixes(_)
Prefixes(name) ==
    IF name = <<>> THEN {}
    ELSE {name} \cup Prefixes(SubSeq(name, 1, Len(name) - 1))

----------------------------------------------------------------------------
(* Responses *)

\* no Location header
NoLocation == [kind |-> "", name |-> <<>>, ref |-> <<>>]

\* Location: /v2/<name>/<kind>/<ref>
Location(kind, name, ref) == [kind |-> kind, name |-> name, ref |-> ref]

\* A response: the request it answers (op, name, ref, upload), its status and
\* body, removed_blobs of a GC, and the headers Docker-Content-Digest and
\* Location (absent unless WithHeaders sets them)
Response(op, name, ref, upload, status, data, removed) ==
    [op |-> op, name |-> name, ref |-> ref, upload |-> upload,
     status |-> status, data |-> data, removed |-> removed,
     digest |-> <<>>, location |-> NoLocation]

WithHeaders(r, digest, location) ==
    [r EXCEPT !.digest = digest, !.location = location]

----------------------------------------------------------------------------
(* Inputs the requests are drawn from *)

App == <<"app">>
OrgApp == <<"org", "app">>

Repos == {App, OrgApp}

Tags == {<<"v1">>, <<"latest">>}

\* the <name> of the blob requests (it only shows in the Location header)
BlobRepos == {App}

\* the ?digest= argument: absent (<<>>) or a digest string
DigestArgs == {<<>>} \cup {Sha256Digest(c) : c \in SessionContents}

NoRange == [present |-> FALSE, wellformed |-> TRUE, start |-> 0]

\* the Content-Range header: absent, malformed, or "start-end"
ContentRanges ==
    {NoRange, [present |-> TRUE, wellformed |-> FALSE, start |-> 0]}
    \cup {[present |-> TRUE, wellformed |-> TRUE, start |-> n] : n \in 0..MaxLen}

\* request bodies of a PATCH
Chunks == {<<>>} \cup {<<x>> : x \in Bytes}

UploadIds == 1..MaxUploads

\* (Content-Type, body) of one request for each way put_manifest rejects
RejectedInputs ==
    { <<<<"text/plain">>, M1>>,
      <<<<V2, "; charset=utf-8">>, MBadJson>>,
      <<<<V2>>, MUnsupported>> }

\* (name, reference, Content-Type, body) of the manifest PUTs of the whole
\* registry
RegistryPuts ==
    { <<App, <<"v1">>, <<V2>>, M3>>,
      <<App, <<"v1">>, <<"text/plain">>, M3>>,
      <<OrgApp, <<"v1">>, <<V2>>, M1>> }

\* (name, reference) of the manifest GETs and DELETEs of the whole registry
RegistryTargets ==
    { <<App, <<"v1">> >>, <<OrgApp, <<"v1">> >> }

\* (name, reference) of the manifest requests of the manifest store alone
StoreTargets ==
    {<<App, r>> : r \in Tags \cup {Sha256Digest(b) : b \in Bodies}}

\* the manifest PUTs of the manifest store alone: every body under every
\* tag, and every body under its own digest
StorePuts ==
    {<<App, t, <<V2>>, b>> : t \in Tags, b \in Bodies}
    \cup {<<App, Sha256Digest(b), <<V2>>, b>> : b \in Bodies}
    \cup {<<App, <<"latest">>, i[1], i[2]>> : i \in RejectedInputs}

----------------------------------------------------------------------------
(* Blob upload: POST, PATCH, PUT *)

\* as BlobAlreadyStored, were the POST never to look for the blob
NeverMounted(bl, digest) == FALSE

\* the test of the POST: a digest is given and blobs/<digest> exists
BlobAlreadyStored(bl, digest) ==
    digest # <<>> /\ get_blob_path(digest) \in DOMAIN bl

init_blob_upload(name, digest) ==
    IF BlobAlreadyStored(blobs, digest)
    THEN /\ resp' = WithHeaders(
                        Response("init_blob_upload", name, digest, 0, 201,
                                 <<>>, {}),
                        digest, Location("blobs", name, digest))
         /\ UNCHANGED <<blobs, blob_inode, uploads, issued, dirs, mfiles>>
    ELSE /\ issued < MaxUploads
         /\ issued' = issued + 1
         /\ uploads' = uploads @@ ((issued + 1) :> <<>>)
         /\ resp' = WithHeaders(
                        Response("init_blob_upload", name, digest, issued + 1,
                                 202, <<>>, {}),
                        <<>>, Location("uploads", name, <<issued + 1>>))
         /\ UNCHANGED <<blobs, blob_inode, dirs, mfiles>>

\* as RangeRejected, were the Content-Range header ignored
RangeIgnored(content_range, current_size) == FALSE

\* the Content-Range check of a PATCH: the header is present and either does
\* not parse as "start-end" or starts elsewhere than at the current size
RangeRejected(content_range, current_size) ==
    /\ content_range.present
    /\ \/ ~content_range.wellformed
       \/ content_range.start # current_size

upload_blob(name, upload_id, content_range, data) ==
    LET upload_path == get_upload_path(upload_id)
        answer(status) ==
            Response("upload_blob", name, <<>>, upload_id, status, <<>>, {})
    IN  IF upload_path \notin DOMAIN uploads
        THEN /\ resp' = answer(404)
             /\ UNCHANGED <<blobs, blob_inode, uploads, issued, dirs, mfiles>>
        ELSE LET current_size == Len(uploads[upload_path])
             IN  IF RangeRejected(content_range, current_size)
                 THEN /\ resp' = answer(400)
                      /\ UNCHANGED <<blobs, blob_inode, uploads, issued, dirs,
                                     mfiles>>
                 ELSE /\ current_size + Len(data) <= MaxLen
                      /\ uploads' = [uploads EXCEPT ![upload_path] = @ \o data]
                      /\ resp' = WithHeaders(
                                    answer(202), <<>>,
                                    Location("uploads", name, <<upload_id>>))
                      /\ UNCHANGED <<blobs, blob_inode, issued, dirs, mfiles>>

\* as DigestMismatch, were finalize to skip the comparison
DigestNeverChecked(digest, content) == FALSE

\* the comparison of finalize: the declared digest against the hash of the
\* session file
DigestMismatch(digest, content) == digest # Sha256Digest(content)

\* as RemoveSession, were the session file left in place
KeepSession(up, upload_path) == up

\* os.remove(upload_path), and the session's end on os.rename
RemoveSession(up, upload_path) == Restrict(up, DOMAIN up \ {upload_path})

\* as KeepExistingBlob, were finalize to rename the session file over the blob
\* whether or not it exists
AlwaysRename(bl, blob_path) == FALSE

\* os.path.exists(blob_path) in finalize: the blob is already stored, and the
\* session file is removed instead of renamed
KeepExistingBlob(bl, blob_path) == blob_path \in DOMAIN bl

\* os.rename(upload_path, blob_path): the file at blob_path is now the session
\* file, replacing any file that was there
Rename(dir, blob_path, file) ==
    [h \in DOMAIN dir \cup {blob_path} |->
        IF h = blob_path THEN file ELSE dir[h]]

complete_blob_upload(name, upload_id, digest) ==
    LET upload_path == get_upload_path(upload_id)
        answer(status) ==
            Response("complete_blob_upload", name, digest, upload_id, status,
                     <<>>, {})
        without_session == RemoveSession(uploads, upload_path)
    IN  IF upload_path \notin DOMAIN uploads
        THEN /\ resp' = answer(404)
             /\ UNCHANGED <<blobs, blob_inode, uploads, issued, dirs, mfiles>>
        ELSE IF digest = <<>>
        THEN /\ resp' = answer(400)
             /\ UNCHANGED <<blobs, blob_inode, uploads, issued, dirs, mfiles>>
        ELSE LET blob_path == get_blob_path(digest)
             IN  IF DigestMismatch(digest, uploads[upload_path])
                 THEN /\ uploads' = without_session
                      /\ resp' = answer(400)
                      /\ UNCHANGED <<blobs, blob_inode, issued, dirs, mfiles>>
                 ELSE /\ uploads' = without_session
                      /\ IF KeepExistingBlob(blobs, blob_path)
                         THEN UNCHANGED <<blobs, blob_inode>>
                         ELSE /\ blobs' = Rename(blobs, blob_path,
                                                 uploads[upload_path])
                              /\ blob_inode' = Rename(blob_inode, blob_path,
                                                      upload_id)
                      /\ resp' = WithHeaders(
                                    answer(201), digest,
                                    Location("blobs", name, digest))
                      /\ UNCHANGED <<issued, dirs, mfiles>>

\* the status, body and Docker-Content-Digest header of GET or HEAD
\* /v2/<name>/blobs/<digest>: HEAD sets the header and sends no body, GET
\* sends the file with send_file, which sets no Docker-Content-Digest
GetBlobResult(bl, digest, method) ==
    LET blob_path == get_blob_path(digest)
    IN  IF blob_path \notin DOMAIN bl
        THEN [status |-> 404, data |-> <<>>, digest |-> <<>>]
        ELSE IF method = "HEAD"
        THEN [status |-> 200, data |-> <<>>, digest |-> digest]
        ELSE [status |-> 200, data |-> bl[blob_path], digest |-> <<>>]

get_blob(name, digest, method) ==
    LET result == GetBlobResult(blobs, digest, method)
    IN  /\ resp' = WithHeaders(
                      Response("get_blob", name, digest, 0, result.status,
                               result.data, {}),
                      result.digest, NoLocation)
        /\ UNCHANGED <<blobs, blob_inode, uploads, issued, dirs, mfiles>>

----------------------------------------------------------------------------
(* Manifest PUT and GET *)

\* any(content_type.startswith(t) for t in SUPPORTED_MANIFEST_TYPES)
SupportedContentType(content_type) ==
    content_type # <<>> /\ content_type[1] \in SUPPORTED_MANIFEST_TYPES

\* the manifests tree after the writes of an accepted put_manifest;
\* link_ok tells whether os.link succeeds or raises OSError
StoreManifest(fs, name, reference, data, link_ok) ==
    LET manifest_path == get_manifest_path(name, reference)
        written == WriteFile(fs, manifest_path, data)
        digest_path == get_manifest_path(name, Sha256Digest(data))
    IN  IF ~StartsWithSha(reference) /\ ~Exists(written, digest_path)
        THEN IF link_ok
             THEN Link(written, manifest_path, digest_path)
             ELSE WriteFile(written, digest_path, data)
        ELSE written

put_manifest(name, reference, content_type, data, link_ok) ==
    LET manifest_data == json_loads(data)
        answer(status) ==
            Response("put_manifest", name, reference, 0, status, <<>>, {})
    IN  /\ dirs' = dirs \cup Prefixes(name)
        /\ IF \/ ~SupportedContentType(content_type)
              \/ ~manifest_data.ok
              \/ /\ manifest_data.mediaType # ""
                 /\ manifest_data.mediaType \notin SUPPORTED_MANIFEST_TYPES
           THEN /\ mfiles' = mfiles
                /\ resp' = answer(400)
           ELSE /\ mfiles' = StoreManifest(mfiles, name, reference, data, link_ok)
                /\ resp' = WithHeaders(
                              answer(201), Sha256Digest(data),
                              Location("manifests", name, Sha256Digest(data)))
        /\ UNCHANGED <<blobs, blob_inode, uploads, issued>>

NotFound == [found |-> FALSE, content |-> <<>>]

\* get_manifest_by_digest: the first file of the repository directory whose
\* bytes hash to digest (all such files hold the same bytes)
get_manifest_by_digest(fs, name, digest) ==
    LET hits == {p \in FilesIn(fs, name) :
                    Sha256Digest(ReadFile(fs, p)) = digest}
    IN  IF hits = {}
        THEN NotFound
        ELSE [found |-> TRUE, content |-> ReadFile(fs, CHOOSE p \in hits : TRUE)]

\* the stored bytes a GET or DELETE of (name, reference) loads
LoadManifest(fs, name, reference) ==
    LET manifest_path == get_manifest_path(name, reference)
    IN  IF StartsWithSha(reference) /\ ~Exists(fs, manifest_path)
        THEN get_manifest_by_digest(fs, name, reference)
        ELSE IF ~Exists(fs, manifest_path)
        THEN NotFound
        ELSE [found |-> TRUE, content |-> ReadFile(fs, manifest_path)]

\* the bytes get_manifest serves for stored bytes: a document without
\* mediaType is served re-serialised with the v2 media type injected
ServedBytes(content) ==
    LET manifest_data == json_loads(content)
    IN  IF manifest_data.ok /\ manifest_data.mediaType = ""
        THEN json_dumps([manifest_data EXCEPT !.mediaType = V2])
        ELSE content

\* the status and body of GET /v2/<name>/manifests/<reference>
GetManifestResult(fs, name, reference) ==
    LET loaded == LoadManifest(fs, name, reference)
    IN  IF ~loaded.found
        THEN [status |-> 404, data |-> <<>>]
        ELSE [status |-> 200, data |-> ServedBytes(loaded.content)]

get_manifest(name, reference) ==
    LET result == GetManifestResult(mfiles, name, reference)
    IN  /\ resp' = WithHeaders(
                      Response("get_manifest", name, reference, 0,
                               result.status, result.data, {}),
                      IF result.status = 200 THEN Sha256Digest(result.data)
                      ELSE <<>>,
                      NoLocation)
        /\ UNCHANGED <<blobs, blob_inode, uploads, issued, dirs, mfiles>>

----------------------------------------------------------------------------
(* Reference walker and incremental sweep *)

Range(seq) == {seq[i] : i \in DOMAIN seq}

\* the digests a parsed manifest references: config.digest, layers[].digest
\* and manifests[].digest
ReferencedDigests(manifest_data) ==
    Range(manifest_data.config) \cup Range(manifest_data.layers)
        \cup Range(manifest_data.manifests)

\* The manifest files the two scans read: for repo in os.listdir(manifests),
\* for filename in os.listdir(manifests/repo), if isfile.  Only the files that
\* lie directly in a top-level directory are reached; an entry of a top-level
\* directory that is itself a directory (a repository named org/app) is
\* skipped by isfile, and its files are never read.
ScannedManifests(fs) == {p \in DOMAIN fs : Len(p[1]) = 1}

Excluded(p, exclude) ==
    /\ p[1] = exclude.name
    /\ \/ p[2] = exclude.ref
       \/ /\ exclude.manifest_digest # <<>>
          /\ p[2] = Tail(exclude.manifest_digest)

_is_blob_referenced(fs, digest, exclude_manifest) ==
    LET normalized == IF StartsWithSha(digest) THEN digest
                      ELSE <<"sha256:">> \o digest
    IN  \E p \in ScannedManifests(fs) :
            /\ ~Excluded(p, exclude_manifest)
            /\ json_loads(ReadFile(fs, p)).ok
            /\ normalized \in ReferencedDigests(json_loads(ReadFile(fs, p)))

\* the blobs directory after _delete_unreferenced_blobs
_delete_unreferenced_blobs(bl, fs, manifest_data, exclude_manifest) ==
    LET blobs_to_check == ReferencedDigests(manifest_data)
        doomed == {get_blob_path(d) : d \in
                     {x \in blobs_to_check :
                        ~_is_blob_referenced(fs, x, exclude_manifest)}}
    IN  Restrict(bl, DOMAIN bl \ doomed)

----------------------------------------------------------------------------
(* Manifest DELETE *)

\* the orders os.listdir may return the entries of a directory in
RECURSIVE Orders(_)
Orders(S) ==
    IF S = {} THEN {<<>>}
    ELSE UNION {{<<x>> \o rest : rest \in Orders(S \ {x})} : x \in S}

\* the loop of delete_manifest over the repository directory, on a DELETE by
\* digest: samefile raises once manifest_path is gone, and only then are the
\* contents compared
RECURSIVE DeleteTags(_, _, _, _)
DeleteTags(fs, listing, manifest_path, target_digest) ==
    IF listing = <<>> THEN fs
    ELSE LET tag_path == Head(listing)
             after ==
                IF StartsWithSha(tag_path[2]) THEN fs
                ELSE IF Exists(fs, manifest_path)
                THEN IF SameFile(fs, tag_path, manifest_path)
                     THEN Remove(fs, tag_path)
                     ELSE fs
                ELSE IF Sha256Hex(ReadFile(fs, tag_path)) = target_digest
                     THEN Remove(fs, tag_path)
                     ELSE fs
         IN  DeleteTags(after, Tail(listing), manifest_path, target_digest)

delete_manifest(name, reference, listing) ==
    LET manifest_path == get_manifest_path(name, reference)
        loaded == LoadManifest(mfiles, name, reference)
        manifest_content == loaded.content
        manifest_data == json_loads(manifest_content)
        manifest_digest == Sha256Digest(manifest_content)
        by_tag == ~StartsWithSha(reference)
        digest_path == IF by_tag THEN get_manifest_path(name, manifest_digest)
                       ELSE manifest_path
        exclude_ref ==
            IF by_tag
            THEN [name |-> name, ref |-> reference,
                  manifest_digest |-> manifest_digest]
            ELSE [name |-> name, ref |-> Tail(manifest_digest),
                  manifest_digest |-> <<>>]
        untagged == IF by_tag THEN mfiles
                    ELSE DeleteTags(mfiles, listing, manifest_path,
                                    Tail(reference))
        unlinked == IF Exists(untagged, manifest_path)
                    THEN Remove(untagged, manifest_path) ELSE untagged
        answer(status) ==
            Response("delete_manifest", name, reference, 0, status, <<>>, {})
    IN  IF ~loaded.found
        THEN /\ resp' = answer(404)
             /\ UNCHANGED <<blobs, blob_inode, uploads, issued, dirs, mfiles>>
        ELSE /\ blobs' = _delete_unreferenced_blobs(blobs, untagged,
                                                    manifest_data, exclude_ref)
             /\ blob_inode' = Restrict(blob_inode, DOMAIN blobs')
             /\ mfiles' = IF Exists(unlinked, digest_path)
                             /\ digest_path # manifest_path
                          THEN Remove(unlinked, digest_path) ELSE unlinked
             /\ resp' = answer(202)
             /\ UNCHANGED <<uploads, issued, dirs>>

----------------------------------------------------------------------------
(* Bulk garbage collection *)

\* used_blobs: the referenced digests of every scanned manifest, undecorated
UsedBlobs(fs) ==
    UNION {{ReplaceSha(d) : d \in ReferencedDigests(json_loads(ReadFile(fs, p)))}
            : p \in {q \in ScannedManifests(fs) : json_loads(ReadFile(fs, q)).ok}}

\* as RemovedBlobs, were the test "blob not in used_blobs" inverted
RemovedBlobsInverted(bl, fs) == {blob \in DOMAIN bl : blob \in UsedBlobs(fs)}

\* the names garbage_collection removes from the blobs directory
RemovedBlobs(bl, fs) == {blob \in DOMAIN bl : blob \notin UsedBlobs(fs)}

garbage_collection ==
    LET removed_blobs == RemovedBlobs(blobs, mfiles)
    IN  /\ blobs' = Restrict(blobs, DOMAIN blobs \ removed_blobs)
        /\ blob_inode' = Restrict(blob_inode, DOMAIN blobs')
        /\ uploads' = EmptyFun
        /\ resp' = Response("garbage_collection", <<>>, <<>>, 0, 200, <<>>,
                            removed_blobs)
        /\ UNCHANGED <<issued, dirs, mfiles>>

----------------------------------------------------------------------------
(* The registry: one request at a time *)

NoResponse == Response("none", <<>>, <<>>, 0, 0, <<>>, {})

\* No manifest PUT in progress.  A PUT in progress is at "opened" (the tag
\* file is open and truncated) or at "written" (the body is in the file); the
\* record keeps its request, whether os.link will succeed, and what the PUT
\* found when it began: whether the file existed (replaces), its bytes (old)
\* and the blob files present (had).  They stay readable once the PUT is done
\* and pc is "idle" again.
NoPut ==
    [pc |-> "idle", name |-> <<>>, reference |-> <<>>, data |-> <<>>,
     link_ok |-> FALSE, replaces |-> FALSE, old |-> <<>>, had |-> {}]

\* no bulk GC in progress
NoGc == [pc |-> "idle", used |-> {}]

\* the file an open file object of a PATCH writes to: none yet, the session
\* file, the blob file the session file was renamed to, or a file that has
\* been removed
NoFile == [where |-> "none", blob |-> <<>>]

\* No upload PATCH in progress.  A PATCH in progress is at "checked" (the
\* session file was found), "sized" (its size read and the Content-Range
\* accepted) or "opened" (the file is open for append).
NoPatch ==
    [pc |-> "idle", name |-> <<>>, upload_id |-> 0, content_range |-> NoRange,
     data |-> <<>>, fd |-> NoFile]

\* No finalize PUT in progress.  A finalize in progress is at "hashed" (the
\* session file was read and hashed) or "matched" (the hash equals the
\* declared digest).
NoFinalize ==
    [pc |-> "idle", name |-> <<>>, upload_id |-> 0, digest |-> <<>>,
     actual_digest |-> <<>>]

Init ==
    /\ blobs = EmptyFun
    /\ blob_inode = EmptyFun
    /\ uploads = EmptyFun
    /\ issued = 0
    /\ dirs = {}
    /\ mfiles = EmptyFun
    /\ resp = NoResponse
    /\ putting = NoPut
    /\ collecting = NoGc
    /\ patching = NoPatch
    /\ finalizing = NoFinalize

\* a request handled from start to end with no other request in between
Serial == UNCHANGED <<putting, collecting, patching, finalizing>>

InitBlobUpload == \E name \in BlobRepos, digest \in DigestArgs :
    init_blob_upload(name, digest) /\ Serial

UploadBlob ==
    \E name \in BlobRepos, upload_id \in UploadIds,
       content_range \in ContentRanges, data \in Chunks :
        upload_blob(name, upload_id, content_range, data) /\ Serial

CompleteBlobUpload ==
    \E name \in BlobRepos, upload_id \in UploadIds, digest \in DigestArgs :
        complete_blob_upload(name, upload_id, digest) /\ Serial

GetBlob ==
    \E name \in BlobRepos, digest \in DigestArgs \ {<<>>},
       method \in {"GET", "HEAD"} :
        get_blob(name, digest, method) /\ Serial

PutManifest(requests) ==
    \E r \in requests, link_ok \in BOOLEAN :
        put_manifest(r[1], r[2], r[3], r[4], link_ok) /\ Serial

GetManifest(targets) ==
    \E t \in targets : get_manifest(t[1], t[2]) /\ Serial

DeleteManifest(targets) ==
    \E t \in targets :
        \E listing \in IF StartsWithSha(t[2])
                       THEN Orders(FilesIn(mfiles, t[1])) ELSE {<<>>} :
            delete_manifest(t[1], t[2], listing) /\ Serial

GarbageCollection == garbage_collection /\ Serial

Next ==
    \/ InitBlobUpload
    \/ UploadBlob
    \/ CompleteBlobUpload
    \/ PutManifest(RegistryPuts)
    \/ GetManifest(RegistryTargets)
    \/ DeleteManifest(RegistryTargets)
    \/ GarbageCollection

Spec == Init /\ [][Next]_vars

----------------------------------------------------------------------------
(* The blob store alone: uploads, blob GET and HEAD, bulk GC *)

NextBlobs ==
    \/ InitBlobUpload
    \/ UploadBlob
    \/ CompleteBlobUpload
    \/ GetBlob
    \/ GarbageCollection

SpecBlobs == Init /\ [][NextBlobs]_vars

----------------------------------------------------------------------------
(* The manifest store of one repository alone: PUT, GET and DELETE by both  *)
(* tags and by the digest of each body                                      *)

NextStore ==
    \/ PutManifest(StorePuts)
    \/ GetManifest(StoreTargets)
    \/ DeleteManifest(StoreTargets)

SpecStore == Init /\ [][NextStore]_vars

----------------------------------------------------------------------------
(* Catalog and tags list *)

\* The order of Python's str comparison on the names that occur.  A digest
\* file name is 64 hex characters and sorts before "latest" and "v1"; digest
\* file names and repository names never meet in one listing.  The empty name
\* is below all of them.
NameRank(x) ==
    CASE x = <<>> -> 0
      [] x = Sha256Hex(M1) -> 1
      [] x = Sha256Hex(M3) -> 2
      [] x = <<"app">> -> 3
      [] x = <<"latest">> -> 4
      [] x = <<"org">> -> 5
      [] x = <<"v1">> -> 6

\* sorted(names)
RECURSIVE Sorted(_)
Sorted(S) ==
    IF S = {} THEN <<>>
    ELSE LET least == CHOOSE x \in S : \A y \in S : NameRank(x) <= NameRank(y)
         IN  <<least>> \o Sorted(S \ {least})

\* the n argument: absent (<<>>) or <<n>>
PageSizes == {<<>>} \cup {<<k>> : k \in 0..MaxPage}

\* the last argument: absent or empty (<<>>), or a name
LastArgs == {<<>>, <<"app">>, <<"latest">>, <<"v1">>, Sha256Hex(M1)}

\* what both listings do with the entries in the order os.listdir gave them:
\* keep those above last, cut to the first n, and sort what is left
Paginate(listing, n, last) ==
    LET after == IF last # <<>>
                 THEN SelectSeq(listing, LAMBDA r : NameRank(r) > NameRank(last))
                 ELSE listing
        cut == IF n # <<>> /\ n[1] < Len(after) THEN SubSeq(after, 1, n[1])
               ELSE after
    IN  Sorted(Range(cut))

\* the entries of manifests/ that are directories
RepositoryDirs(ds) == {d \in ds : Len(d) = 1}

\* the entries of manifests/<name> that are files and do not start with
\* 'sha256:'; a digest file is named by the bare hex digest and is listed
ListedFiles(fs, name) ==
    {p[2] : p \in {q \in FilesIn(fs, name) : ~StartsWithSha(q[2])}}

list_repositories(listing, n, last) ==
    /\ resp' = Response("list_repositories", <<>>, <<>>, 0, 200,
                        Paginate(listing, n, last), {})
    /\ UNCHANGED <<blobs, blob_inode, uploads, issued, dirs, mfiles>>

list_tags(name, listing, n, last) ==
    /\ resp' = IF name \notin dirs
               THEN Response("list_tags", name, <<>>, 0, 404, <<>>, {})
               ELSE Response("list_tags", name, <<>>, 0, 200,
                             Paginate(listing, n, last), {})
    /\ UNCHANGED <<blobs, blob_inode, uploads, issued, dirs, mfiles>>

ListRepositories ==
    \E listing \in Orders(RepositoryDirs(dirs)), n \in PageSizes,
       last \in LastArgs :
        list_repositories(listing, n, last) /\ Serial

ListTags ==
    \E name \in Repos :
        \E listing \in Orders(ListedFiles(mfiles, name)), n \in PageSizes,
           last \in LastArgs :
            list_tags(name, listing, n, last) /\ Serial

\* the manifest PUTs that fill the catalog: two tags of one repository and a
\* repository under a namespace
ListPuts ==
    { <<App, <<"v1">>, <<V2>>, M1>>,
      <<App, <<"latest">>, <<V2>>, M3>>,
      <<App, <<"latest">>, <<"text/plain">>, M3>>,
      <<OrgApp, <<"v1">>, <<V2>>, M3>> }

NextList ==
    \/ PutManifest(ListPuts)
    \/ ListRepositories
    \/ ListTags

SpecList == Init /\ [][NextList]_vars

----------------------------------------------------------------------------
(* Requests in parallel: a manifest PUT and a bulk GC each take their file  *)
(* operations one at a time, with the steps of the other and manifest GETs *)
(* in between                                                               *)

\* (name, reference, Content-Type, body) of the PUTs taken step by step
ConcPuts ==
    { <<App, <<"v1">>, <<V2>>, M1>>,
      <<App, <<"v1">>, <<V2>>, M3>>,
      <<App, <<"v1">>, <<"text/plain">>, M1>> }

ConcTargets == { <<App, <<"v1">> >> }

\* the registry after POST, PATCH "a" and the finalize PUT of one session:
\* blob A is stored
InitConc ==
    /\ blobs = (get_blob_path(DigestA) :> <<"a">>)
    /\ blob_inode = (get_blob_path(DigestA) :> 1)
    /\ uploads = EmptyFun
    /\ issued = 1
    /\ dirs = {}
    /\ mfiles = EmptyFun
    /\ resp = WithHeaders(
                  Response("complete_blob_upload", App, DigestA, 1, 201,
                           <<>>, {}),
                  DigestA, Location("blobs", App, DigestA))
    /\ putting = NoPut
    /\ collecting = NoGc
    /\ patching = NoPatch
    /\ finalizing = NoFinalize

\* put_manifest up to open(manifest_path, 'wb'): the directory is made, the
\* request validated, and the tag file created empty or truncated
put_open(name, reference, content_type, data, link_ok) ==
    LET manifest_data == json_loads(data)
        manifest_path == get_manifest_path(name, reference)
        replaces == Exists(mfiles, manifest_path)
    IN  /\ putting.pc = "idle"
        /\ dirs' = dirs \cup Prefixes(name)
        /\ IF \/ ~SupportedContentType(content_type)
              \/ ~manifest_data.ok
              \/ /\ manifest_data.mediaType # ""
                 /\ manifest_data.mediaType \notin SUPPORTED_MANIFEST_TYPES
           THEN /\ resp' = Response("put_manifest", name, reference, 0, 400,
                                    <<>>, {})
                /\ UNCHANGED <<mfiles, putting>>
           ELSE /\ mfiles' = WriteFile(mfiles, manifest_path, <<>>)
                /\ putting' =
                      [pc |-> "opened", name |-> name, reference |-> reference,
                       data |-> data, link_ok |-> link_ok,
                       replaces |-> replaces,
                       old |-> IF replaces THEN ReadFile(mfiles, manifest_path)
                               ELSE <<>>,
                       had |-> DOMAIN blobs]
                /\ UNCHANGED resp
        /\ UNCHANGED <<blobs, blob_inode, uploads, issued, collecting>>

\* f.write(request.data) and the close of the file
put_write ==
    /\ putting.pc = "opened"
    /\ mfiles' = WriteFile(mfiles,
                           get_manifest_path(putting.name, putting.reference),
                           putting.data)
    /\ putting' = [putting EXCEPT !.pc = "written"]
    /\ UNCHANGED <<blobs, blob_inode, uploads, issued, dirs, resp, collecting>>

\* the rest of put_manifest: the digest address is linked or copied when the
\* reference is a tag and the digest file is absent, and 201 is returned
put_link ==
    LET name == putting.name
        data == putting.data
        manifest_path == get_manifest_path(name, putting.reference)
        digest_path == get_manifest_path(name, Sha256Digest(data))
    IN  /\ putting.pc = "written"
        /\ mfiles' = IF /\ ~StartsWithSha(putting.reference)
                        /\ ~Exists(mfiles, digest_path)
                     THEN IF putting.link_ok
                          THEN Link(mfiles, manifest_path, digest_path)
                          ELSE WriteFile(mfiles, digest_path, data)
                     ELSE mfiles
        /\ resp' = WithHeaders(
                      Response("put_manifest", name, putting.reference, 0, 201,
                               <<>>, {}),
                      Sha256Digest(data),
                      Location("manifests", name, Sha256Digest(data)))
        /\ putting' = [putting EXCEPT !.pc = "idle"]
        /\ UNCHANGED <<blobs, blob_inode, uploads, issued, dirs, collecting>>

\* the first loop of garbage_collection: used_blobs is built
gc_scan ==
    /\ collecting.pc = "idle"
    /\ collecting' = [pc |-> "scanned", used |-> UsedBlobs(mfiles)]
    /\ UNCHANGED <<blobs, blob_inode, uploads, issued, dirs, mfiles, resp,
                   putting>>

\* as SweepLiveSet, were the sweep to read the manifests again
LiveSetAtSweep(used_blobs, fs) == UsedBlobs(fs)

\* the live set the second loop of garbage_collection tests each blob
\* against: used_blobs as the first loop left it
SweepLiveSet(used_blobs, fs) == used_blobs

\* the second loop of garbage_collection and the cleaning of uploads
gc_sweep ==
    LET live == SweepLiveSet(collecting.used, mfiles)
        removed_blobs == {blob \in DOMAIN blobs : blob \notin live}
    IN  /\ collecting.pc = "scanned"
        /\ blobs' = Restrict(blobs, DOMAIN blobs \ removed_blobs)
        /\ blob_inode' = Restrict(blob_inode, DOMAIN blobs')
        /\ uploads' = EmptyFun
        /\ resp' = Response("garbage_collection", <<>>, <<>>, 0, 200, <<>>,
                            removed_blobs)
        /\ collecting' = NoGc
        /\ UNCHANGED <<issued, dirs, mfiles, putting>>

\* no upload request is in progress beside the PUT and the GC
NoUploadRequest == UNCHANGED <<patching, finalizing>>

PutOpen ==
    \E r \in ConcPuts, link_ok \in BOOLEAN :
        put_open(r[1], r[2], r[3], r[4], link_ok) /\ NoUploadRequest

PutWrite == put_write /\ NoUploadRequest

PutLink == put_link /\ NoUploadRequest

GcScan == gc_scan /\ NoUploadRequest

GcSweep == gc_sweep /\ NoUploadRequest

NextConc ==
    \/ PutOpen
    \/ PutWrite
    \/ PutLink
    \/ GetManifest(ConcTargets)
    \/ GcScan
    \/ GcSweep

SpecConc == InitConc /\ [][NextConc]_vars

----------------------------------------------------------------------------
(* A PATCH and a finalize PUT in parallel on the upload sessions: each      *)
(* takes its file operations one at a time                                  *)

\* upload_blob up to os.path.exists(upload_path)
patch_check(name, upload_id, content_range, data) ==
    LET upload_path == get_upload_path(upload_id)
    IN  /\ patching.pc = "idle"
        /\ IF upload_path \notin DOMAIN uploads
           THEN /\ resp' = Response("upload_blob", name, <<>>, upload_id, 404,
                                    <<>>, {})
                /\ UNCHANGED patching
           ELSE /\ Len(uploads[upload_path]) + Len(data) <= MaxLen
                /\ patching' = [pc |-> "checked", name |-> name,
                                upload_id |-> upload_id,
                                content_range |-> content_range,
                                data |-> data, fd |-> NoFile]
                /\ UNCHANGED resp
        /\ UNCHANGED <<blobs, blob_inode, uploads, issued, dirs, mfiles,
                       putting, collecting, finalizing>>

\* os.path.getsize(upload_path) and the Content-Range check; getsize raises
\* when the session file is gone by now, and the request ends with 500
patch_size ==
    LET upload_path == get_upload_path(patching.upload_id)
        answer(status) ==
            Response("upload_blob", patching.name, <<>>, patching.upload_id,
                     status, <<>>, {})
    IN  /\ patching.pc = "checked"
        /\ IF upload_path \notin DOMAIN uploads
           THEN resp' = answer(500) /\ patching' = NoPatch
           ELSE IF RangeRejected(patching.content_range,
                                 Len(uploads[upload_path]))
           THEN resp' = answer(400) /\ patching' = NoPatch
           ELSE /\ patching' = [patching EXCEPT !.pc = "sized"]
                /\ UNCHANGED resp
        /\ UNCHANGED <<blobs, blob_inode, uploads, issued, dirs, mfiles,
                       putting, collecting, finalizing>>

\* open(upload_path, 'ab'): opens the session file, or creates it empty when
\* it is gone by now
patch_open ==
    LET upload_path == get_upload_path(patching.upload_id)
    IN  /\ patching.pc = "sized"
        /\ uploads' = IF upload_path \in DOMAIN uploads THEN uploads
                      ELSE uploads @@ (upload_path :> <<>>)
        /\ patching' = [patching EXCEPT
                            !.pc = "opened",
                            !.fd = [where |-> "session", blob |-> <<>>]]
        /\ UNCHANGED <<blobs, blob_inode, issued, dirs, mfiles, resp,
                       putting, collecting, finalizing>>

\* f.write(request.data) and the close: the bytes are appended to the file
\* the open file object refers to, wherever a rename has put it; then
\* os.path.getsize(upload_path), which raises when the session file is gone
patch_write ==
    LET upload_path == get_upload_path(patching.upload_id)
        fd == patching.fd
        answer(status) ==
            Response("upload_blob", patching.name, <<>>, patching.upload_id,
                     status, <<>>, {})
    IN  /\ patching.pc = "opened"
        /\ uploads' = IF fd.where = "session"
                      THEN [uploads EXCEPT ![upload_path] = @ \o patching.data]
                      ELSE uploads
        /\ blobs' = IF fd.where = "blob" /\ fd.blob \in DOMAIN blobs
                    THEN [blobs EXCEPT ![fd.blob] = @ \o patching.data]
                    ELSE blobs
        /\ resp' = IF upload_path \in DOMAIN uploads
                   THEN WithHeaders(
                            answer(202), <<>>,
                            Location("uploads", patching.name,
                                     <<patching.upload_id>>))
                   ELSE answer(500)
        /\ patching' = NoPatch
        /\ UNCHANGED <<blob_inode, issued, dirs, mfiles, putting, collecting,
                       finalizing>>

\* the open file object of the PATCH in progress after the session file of
\* upload_id has been renamed to a blob or removed
FileAfter(p, upload_id, where, blob) ==
    IF p.pc = "opened" /\ p.upload_id = upload_id /\ p.fd.where = "session"
    THEN [p EXCEPT !.fd = [where |-> where, blob |-> blob]]
    ELSE p

\* complete_blob_upload up to the hash of the session file
final_hash(name, upload_id, digest) ==
    LET upload_path == get_upload_path(upload_id)
        answer(status) ==
            Response("complete_blob_upload", name, digest, upload_id, status,
                     <<>>, {})
    IN  /\ finalizing.pc = "idle"
        /\ IF upload_path \notin DOMAIN uploads
           THEN resp' = answer(404) /\ UNCHANGED finalizing
           ELSE IF digest = <<>>
           THEN resp' = answer(400) /\ UNCHANGED finalizing
           ELSE /\ finalizing' =
                      [pc |-> "hashed", name |-> name, upload_id |-> upload_id,
                       digest |-> digest,
                       actual_digest |-> Sha256Digest(uploads[upload_path])]
                /\ UNCHANGED resp
        /\ UNCHANGED <<blobs, blob_inode, uploads, issued, dirs, mfiles,
                       putting, collecting, patching>>

\* the comparison of the declared digest with the hash read before; on a
\* mismatch the session file is removed and 400 returned
final_compare ==
    LET upload_id == finalizing.upload_id
        upload_path == get_upload_path(upload_id)
    IN  /\ finalizing.pc = "hashed"
        /\ IF finalizing.digest # finalizing.actual_digest
           THEN /\ uploads' = RemoveSession(uploads, upload_path)
                /\ patching' = FileAfter(patching, upload_id, "unlinked", <<>>)
                /\ resp' = Response("complete_blob_upload", finalizing.name,
                                    finalizing.digest, upload_id, 400, <<>>, {})
                /\ finalizing' = NoFinalize
           ELSE /\ finalizing' = [finalizing EXCEPT !.pc = "matched"]
                /\ UNCHANGED <<uploads, patching, resp>>
        /\ UNCHANGED <<blobs, blob_inode, issued, dirs, mfiles, putting,
                       collecting>>

\* the rest of complete_blob_upload: the session file, with the bytes it
\* holds by now, is renamed to the blob path, or removed when the blob
\* exists; 201 is returned
final_rename ==
    LET upload_id == finalizing.upload_id
        upload_path == get_upload_path(upload_id)
        digest == finalizing.digest
        blob_path == get_blob_path(digest)
    IN  /\ finalizing.pc = "matched"
        /\ uploads' = RemoveSession(uploads, upload_path)
        /\ IF KeepExistingBlob(blobs, blob_path)
           THEN /\ UNCHANGED <<blobs, blob_inode>>
                /\ patching' = FileAfter(patching, upload_id, "unlinked", <<>>)
           ELSE /\ blobs' = Rename(blobs, blob_path, uploads[upload_path])
                /\ blob_inode' = Rename(blob_inode, blob_path, upload_id)
                /\ patching' = FileAfter(patching, upload_id, "blob", blob_path)
        /\ resp' = WithHeaders(
                      Response("complete_blob_upload", finalizing.name, digest,
                               upload_id, 201, <<>>, {}),
                      digest, Location("blobs", finalizing.name, digest))
        /\ finalizing' = NoFinalize
        /\ UNCHANGED <<issued, dirs, mfiles, putting, collecting>>

\* the registry after one POST: session 1 is open and empty
InitUpload ==
    /\ blobs = EmptyFun
    /\ blob_inode = EmptyFun
    /\ uploads = (1 :> <<>>)
    /\ issued = 1
    /\ dirs = {}
    /\ mfiles = EmptyFun
    /\ resp = WithHeaders(
                  Response("init_blob_upload", App, <<>>, 1, 202, <<>>, {}),
                  <<>>, Location("uploads", App, <<1>>))
    /\ putting = NoPut
    /\ collecting = NoGc
    /\ patching = NoPatch
    /\ finalizing = NoFinalize

\* the Content-Range headers of the PATCHes taken step by step: absent,
\* malformed, or starting at 0
RaceRanges ==
    {cr \in ContentRanges : cr.present => (~cr.wellformed \/ cr.start = 0)}

PatchCheck ==
    \E name \in BlobRepos, upload_id \in 1..issued,
       content_range \in RaceRanges, data \in Chunks :
        patch_check(name, upload_id, content_range, data)

PatchSize == patch_size

PatchOpen == patch_open

PatchWrite == patch_write

FinalHash ==
    \E name \in BlobRepos, upload_id \in 1..issued, digest \in DigestArgs :
        final_hash(name, upload_id, digest)

FinalCompare == final_compare

FinalRename == final_rename

NextUpload ==
    \/ PatchCheck
    \/ PatchSize
    \/ PatchOpen
    \/ PatchWrite
    \/ FinalHash
    \/ FinalCompare
    \/ FinalRename

SpecUpload == InitUpload /\ [][NextUpload]_vars

----------------------------------------------------------------------------
(* What the claims speak of *)

\* the manifest files of every repository, nested directories included
ManifestFiles(fs) == DOMAIN fs

\* the blob file names the manifest stored at p references
BlobsReferencedBy(fs, p) ==
    {ReplaceSha(d) : d \in ReferencedDigests(json_loads(ReadFile(fs, p)))}

\* some stored manifest references the blob file h
ReferencedBySome(fs, h) ==
    \E p \in ManifestFiles(fs) : h \in BlobsReferencedBy(fs, p)

TagFiles(fs, name) == {p \in FilesIn(fs, name) : ~IsHexName(p[2])}

DigestFiles(fs, name) == {p \in FilesIn(fs, name) : IsHexName(p[2])}

PutByTagDone ==
    /\ resp.op = "put_manifest"
    /\ resp.status = 201
    /\ ~StartsWithSha(resp.ref)

GcDone == resp.op = "garbage_collection" /\ resp.status = 200

DeleteDone == resp.op = "delete_manifest" /\ resp.status = 202

\* the upload ids handed out whose session file is gone
ClosedSessions == (1..issued) \ DOMAIN uploads

\* s is b with t appended
IsPrefix(b, s) == Len(b) <= Len(s) /\ SubSeq(s, 1, Len(b)) = b

----------------------------------------------------------------------------
(* The claims *)

\* C1: in every reachable state every file blobs/<h> holds bytes whose
\* SHA-256 hex digest is h.
C1_ContentAddress ==
    \A h \in DOMAIN blobs : Sha256Hex(blobs[h]) = h

\* a finalize has just promoted a non-empty session to a blob
C1_Witness ==
    /\ resp.op = "complete_blob_upload"
    /\ resp.status = 201
    /\ \E h \in DOMAIN blobs : blobs[h] # <<>> /\ Sha256Digest(blobs[h]) = resp.ref

\* C2: after a successful manifest PUT addressed by a tag, the repository
\* holds a digest-address file whose bytes equal those of the tag file.
C2_TagDigestConsistency ==
    PutByTagDone =>
        \E p \in DigestFiles(mfiles, resp.name) :
            ReadFile(mfiles, p)
                = ReadFile(mfiles, get_manifest_path(resp.name, resp.ref))

\* C3: after a bulk GC, every digest referenced by a manifest file of the
\* store names a file present in blobs/.
C3_NoDanglingAfterGC ==
    GcDone =>
        \A p \in ManifestFiles(mfiles) :
            BlobsReferencedBy(mfiles, p) \subseteq DOMAIN blobs

\* C4: a blob present before a bulk GC and referenced by a stored manifest of
\* any repository (a name with a slash included) is present after the GC and
\* is not listed in removed_blobs.
C4_GcKeepsReferenced ==
    [][GcDone' =>
         \A h \in DOMAIN blobs :
            ReferencedBySome(mfiles, h) =>
                h \in DOMAIN blobs' /\ h \notin resp'.removed]_vars

\* C5: after a bulk GC every file left in blobs/ is referenced by a surviving
\* manifest, and removed_blobs lists exactly the blob files that were deleted.
C5_NoOrphansAfterGC ==
    [][GcDone' =>
         /\ \A h \in DOMAIN blobs' : ReferencedBySome(mfiles', h)
         /\ resp'.removed = DOMAIN blobs \ DOMAIN blobs']_vars

\* a bulk GC has removed a blob and kept another
C5_Witness ==
    /\ GcDone
    /\ resp.removed # {}
    /\ DOMAIN blobs # {}

\* C6: in every state reached by manifest PUTs and DELETEs, every tag file has
\* a sibling named by the hash of its bytes, holding the same bytes.
C6_TagHasDigestTwin ==
    \A name \in Repos : \A p \in TagFiles(mfiles, name) :
        LET twin == <<name, Sha256Hex(ReadFile(mfiles, p))>>
        IN  /\ Exists(mfiles, twin)
            /\ ReadFile(mfiles, twin) = ReadFile(mfiles, p)

\* C7: in every reachable state every digest-address manifest file holds
\* bytes whose SHA-256 hex digest is its file name.
C7_DigestFileHashesToName ==
    \A name \in Repos : \A p \in DigestFiles(mfiles, name) :
        Sha256Hex(ReadFile(mfiles, p)) = p[2]

\* C8: after PUT manifest(repo, tag, body), GET by the tag serves bytes s and
\* GET by sha256:hash(s) returns 200 with bytes identical to s.
C8_RoundTripByDigest ==
    PutByTagDone =>
        LET served == GetManifestResult(mfiles, resp.name, resp.ref)
            again == GetManifestResult(mfiles, resp.name,
                                       Sha256Digest(served.data))
        IN  /\ served.status = 200
            /\ again.status = 200
            /\ again.data = served.data

\* C9: after a successful DELETE by digest D, no tag file whose bytes hash to
\* D is left in the repository.
C9_DeleteByDigestRemovesTags ==
    (DeleteDone /\ StartsWithSha(resp.ref)) =>
        \A p \in TagFiles(mfiles, resp.name) :
            Sha256Digest(ReadFile(mfiles, p)) # resp.ref

\* C10: after a successful manifest DELETE, each blob the deleted manifest
\* referenced (and that was present) is absent from blobs/ if and only if no
\* manifest file surviving the delete, in any repository, references it.
C10_IncrementalGC ==
    [][DeleteDone' =>
         LET deleted == LoadManifest(mfiles, resp'.name, resp'.ref).content
             candidates ==
                {ReplaceSha(d) : d \in ReferencedDigests(json_loads(deleted))}
         IN  \A h \in candidates \cap DOMAIN blobs :
                (h \notin DOMAIN blobs') <=> ~ReferencedBySome(mfiles', h)]_vars

\* C11: the length of an existing upload session never decreases; a PATCH
\* whose Content-Range is malformed or starts elsewhere than at the current
\* length returns 400 and leaves the session bytes unchanged; an accepted
\* PATCH appends its body exactly at the current length.
C11_UploadMonotonic ==
    [][/\ \A id \in DOMAIN uploads \cap DOMAIN uploads' :
            IsPrefix(uploads[id], uploads'[id])
       /\ \A name \in BlobRepos, id \in DOMAIN uploads,
             cr \in ContentRanges, data \in Chunks :
            upload_blob(name, id, cr, data) =>
                IF cr.present
                   /\ (~cr.wellformed \/ cr.start # Len(uploads[id]))
                THEN resp'.status = 400 /\ uploads' = uploads
                ELSE /\ resp'.status = 202
                     /\ uploads'[id] = uploads[id] \o data
                     /\ \A other \in DOMAIN uploads \ {id} :
                            uploads'[other] = uploads[other]]_vars

\* a PATCH on a non-empty session has been rejected
C11_Witness ==
    /\ resp.op = "upload_blob"
    /\ resp.status = 400
    /\ resp.upload \in DOMAIN uploads
    /\ uploads[resp.upload] # <<>>

\* C12: a finalize PUT on an existing session that returns 400 (digest absent
\* or not the hash of the session content) leaves no session file and creates
\* no blob.
C12_FailedFinalizeDestroysSession ==
    [][(/\ resp'.op = "complete_blob_upload"
        /\ resp'.status = 400
        /\ resp'.upload \in DOMAIN uploads)
       => /\ resp'.upload \notin DOMAIN uploads'
          /\ blobs' = blobs]_vars

\* C13: finalizing a session whose content hashes to the declared digest d
\* while blobs/<d> exists returns 201, removes the session file and leaves the
\* stored blob (bytes and file identity), every other blob and every manifest
\* unchanged.
C13_FinalizeDedup ==
    [][(/\ resp'.op = "complete_blob_upload"
        /\ resp'.upload \in DOMAIN uploads
        /\ resp'.ref = Sha256Digest(uploads[resp'.upload])
        /\ get_blob_path(resp'.ref) \in DOMAIN blobs)
       => /\ resp'.status = 201
          /\ resp'.upload \notin DOMAIN uploads'
          /\ blobs' = blobs
          /\ blob_inode' = blob_inode
          /\ mfiles' = mfiles
          /\ dirs' = dirs]_vars

\* a finalize has returned 201 for a blob that is the file of another session
C13_Witness ==
    /\ resp.op = "complete_blob_upload"
    /\ resp.status = 201
    /\ get_blob_path(resp.ref) \in DOMAIN blobs
    /\ blob_inode[get_blob_path(resp.ref)] # resp.upload

\* C14: after uploading b and finalizing with d = sha256 of b, GET and HEAD of
\* blobs/d return 200 with the header Docker-Content-Digest equal to d, and GET
\* returns the body b.
C14_BlobRoundTrip ==
    (resp.op = "complete_blob_upload" /\ resp.status = 201) =>
        LET d == resp.ref
            got == GetBlobResult(blobs, d, "GET")
            head == GetBlobResult(blobs, d, "HEAD")
        IN  /\ got.status = 200
            /\ Sha256Digest(got.data) = d
            /\ got.digest = d
            /\ head.status = 200
            /\ head.digest = d

\* C17: a session that is closed (finalized, discarded, or swept by a GC)
\* stays closed; an open session is closed only by a successful finalize, a
\* digest-mismatch finalize or a bulk GC, each of which closes it; a PATCH or
\* PUT on a closed session returns 404 and changes no blob; after a bulk GC
\* the uploads directory holds no session.
C17_SessionLifecycle ==
    [][/\ ClosedSessions \subseteq (1..issued') \ DOMAIN uploads'
       /\ \A id \in DOMAIN uploads :
            LET finalize == resp'.op = "complete_blob_upload"
                                /\ resp'.upload = id
                matches == resp'.ref = Sha256Digest(uploads[id])
                closes == \/ resp'.op = "garbage_collection"
                          \/ finalize /\ matches /\ resp'.status = 201
                          \/ /\ finalize /\ ~matches /\ resp'.ref # <<>>
                             /\ resp'.status = 400
            IN  (id \notin DOMAIN uploads') <=> closes
       /\ (/\ resp'.op \in {"upload_blob", "complete_blob_upload"}
           /\ resp'.upload \in ClosedSessions)
          => /\ resp'.status = 404
             /\ blobs' = blobs
             /\ blob_inode' = blob_inode
       /\ resp'.op = "garbage_collection" => uploads' = EmptyFun]_vars

\* a PATCH or PUT on a finalized session has been answered 404
C17_Witness ==
    /\ resp.op \in {"upload_blob", "complete_blob_upload"}
    /\ resp.status = 404
    /\ \E h \in DOMAIN blobs : blob_inode[h] = resp.upload

\* C18: a POST with ?digest=<d> while blobs/<d> exists returns 201 with
\* Location /v2/<name>/blobs/<d> and changes nothing in uploads/, blobs/ and
\* manifests/; a POST with no digest or with the digest of no stored blob
\* creates exactly one new empty session and returns 202.
C18_MountShortCircuit ==
    [][resp'.op = "init_blob_upload" =>
         LET d == resp'.ref
         IN  /\ blobs' = blobs
             /\ blob_inode' = blob_inode
             /\ mfiles' = mfiles
             /\ dirs' = dirs
             /\ IF d # <<>> /\ get_blob_path(d) \in DOMAIN blobs
                THEN /\ resp'.status = 201
                     /\ resp'.location = Location("blobs", resp'.name, d)
                     /\ uploads' = uploads
                ELSE /\ resp'.status = 202
                     /\ \E id \in DOMAIN uploads' \ DOMAIN uploads :
                            /\ DOMAIN uploads' = DOMAIN uploads \cup {id}
                            /\ uploads'[id] = <<>>
                     /\ \A id \in DOMAIN uploads :
                            uploads'[id] = uploads[id]]_vars

\* a POST naming a stored blob has been answered 201 while a session is open
C18_Witness ==
    /\ resp.op = "init_blob_upload"
    /\ resp.status = 201
    /\ get_blob_path(resp.ref) \in DOMAIN blobs
    /\ DOMAIN uploads # {}

\* a manifest GET is answered while the PUT in progress is as it was
GetDuringPut ==
    /\ resp'.op = "get_manifest"
    /\ putting.pc \in {"opened", "written"}
    /\ UNCHANGED <<putting, collecting, mfiles, blobs>>
    /\ resp'.name = putting.name
    /\ resp'.ref = putting.reference

\* C15: a GET of tag t taken between the file operations of a PUT that
\* replaces the body of t is answered with the complete old manifest or the
\* complete new one.
C15_TagPutAtomic ==
    [][(GetDuringPut /\ putting.replaces) =>
         /\ resp'.status = 200
         /\ resp'.data \in {ServedBytes(putting.old),
                            ServedBytes(putting.data)}]_vars

\* C16: the sweep of a bulk GC removes every blob that is not in the live set
\* built by its scan, whatever the manifests reference by then; so a blob
\* referenced only by a manifest written after the scan is deleted.
C16_SweepUsesScanLiveSet ==
    [][(collecting.pc = "scanned" /\ collecting'.pc = "idle") =>
         /\ resp'.removed = {h \in DOMAIN blobs : h \notin collecting.used}
         /\ DOMAIN blobs' = DOMAIN blobs \ resp'.removed]_vars

\* a PUT and a GC have both completed, the GC last; the manifest the PUT
\* installed references a blob that was present when the PUT began and that
\* the GC has removed
C16_Witness ==
    /\ putting.pc = "idle"
    /\ collecting.pc = "idle"
    /\ GcDone
    /\ LET p == get_manifest_path(putting.name, putting.reference)
       IN  /\ Exists(mfiles, p)
           /\ ReadFile(mfiles, p) = putting.data
           /\ p \in ScannedManifests(mfiles)
           /\ \E h \in BlobsReferencedBy(mfiles, p) :
                /\ h \in putting.had
                /\ h \in resp.removed
                /\ h \notin DOMAIN blobs

\* the n smallest names above last, ascending
Page(names, n, last) ==
    LET above == Sorted({r \in names :
                            last = <<>> \/ NameRank(r) > NameRank(last)})
    IN  IF n # <<>> /\ n[1] < Len(above) THEN SubSeq(above, 1, n[1])
        ELSE above

\* C19: for every order in which the directory is enumerated and every n and
\* last, the catalog and the tags list return the n smallest names greater
\* than last, ascending.
C19_ListingPagination ==
    /\ \A listing \in Orders(RepositoryDirs(dirs)), n \in PageSizes,
          last \in LastArgs :
            Paginate(listing, n, last) = Page(RepositoryDirs(dirs), n, last)
    /\ \A name \in Repos \cap dirs :
         \A listing \in Orders(ListedFiles(mfiles, name)), n \in PageSizes,
            last \in LastArgs :
                Paginate(listing, n, last)
                    = Page(ListedFiles(mfiles, name), n, last)

C21_FinalizeEnforcesUnderRace ==
    (patching.pc = "idle" /\ finalizing.pc = "idle") =>
        \A h \in DOMAIN blobs : Sha256Hex(blobs[h]) = h

\* C22: a manifest PUT answered 400 MANIFEST_INVALID leaves the store as it
\* was: no file and no directory appears, so a repository without a manifest
\* stays out of the catalog and its tags list stays 404 NAME_UNKNOWN.
C22_RejectedPutChangesNothing ==
    [][(/\ resp'.op = "put_manifest"
        /\ resp'.status = 400) =>
            /\ mfiles' = mfiles
            /\ blobs' = blobs
            /\ uploads' = uploads
            /\ dirs' = dirs
            /\ RepositoryDirs(dirs') = RepositoryDirs(dirs)
            /\ \A name \in Repos : name \notin dirs => name \notin dirs']_vars

====
